---- MODULE Spec2Model ----
(***************************************************************************)
(* Reading List Processor: the bookmark extractor (safari_reader.py), the  *)
(* summarization dispatcher (summarizer.py) and the sync/process/delete    *)
(* handlers (main.py) over the persisted reading_list_items table.         *)
(*                                                                         *)
(* Three specifications share the module:                                  *)
(*   Spec          the HTTP handlers over the item table                   *)
(*   SpecExtract   extract_reading_list over bounded bookmark trees        *)
(*   SpecDispatch  summarize_with_llm over contents around max_chars       *)
(***************************************************************************)
EXTENDS Integers, Sequences, FiniteSets, TLC

(***************************************************************************)
(* Python values.  None of an Optional[str] is a reserved string, None of  *)
(* an Optional[int] is the empty tuple (an int n is <<n>>).  A datetime is  *)
(* its ISO date string.                                                    *)
(***************************************************************************)
None == "<None>"
NoneInt == <<>>

\* Python truthiness of an Optional[str]: None and '' are falsy.
Truthy(s) == s # None /\ s # ""
\* Python truthiness of an Optional[int]: None and 0 are falsy.
TruthyInt(i) == i # NoneInt /\ i[1] # 0

RECURSIVE Repeat(_, _)
\* Python's s * n
Repeat(s, n) ==
    IF n = 0 THEN ""
    ELSE LET h == Repeat(s, n \div 2)
         IN  IF n % 2 = 1 THEN h \o h \o s ELSE h \o h

(***************************************************************************)
(* summarizer.py : summarize_with_llm                                      *)
(***************************************************************************)
max_chars == 400000
truncation_marker == "\n\n[Content truncated due to length...]"
default_instructions ==
    "Please provide a concise summary of the following content. " \o
    "Focus on the main points, key takeaways, and any important insights."

\* os.getenv(name, default) on an environment record (None = variable unset)
getenv(env, name, default) == IF env[name] = None THEN default ELSE env[name]

\* line 80: instructions = custom_instructions if custom_instructions else default
instructions_of(custom_instructions) ==
    IF Truthy(custom_instructions) THEN custom_instructions ELSE default_instructions

\* a truncation that already cuts a content of exactly max_chars characters
truncate_from_budget(content) ==
    IF Len(content) >= max_chars
    THEN SubSeq(content, 1, max_chars - 1) \o truncation_marker
    ELSE content

\* lines 83-85: the content placed in the prompt
truncate(content) ==
    IF Len(content) > max_chars
    THEN SubSeq(content, 1, max_chars) \o truncation_marker
    ELSE content

\* line 87: prompt = f"{instructions}\n\nContent:\n\n{content}"
build_prompt(content, custom_instructions) ==
    instructions_of(custom_instructions) \o "\n\nContent:\n\n" \o truncate(content)

\* The provider's reply to one chat/messages request: a transport or API error,
\* or a response whose text is a string or (chat completions: message.content
\* is Optional) null.
ApiReplies ==
    { [ok |-> FALSE, content |-> None],
      [ok |-> TRUE,  content |-> None],
      [ok |-> TRUE,  content |-> "summary"] }

Raise(msg) == [raised |-> TRUE, error |-> msg, value |-> None,
               provider |-> None, model |-> None, prompt |-> None]
Return(v, provider, model, prompt) ==
    [raised |-> FALSE, error |-> None, value |-> v,
     provider |-> provider, model |-> model, prompt |-> prompt]

\* lines 100-115 / 151-163: OpenAI-compatible chat completion;
\* returns response.choices[0].message.content as is.
chat_completion(provider, model, prompt, reply) ==
    IF ~reply.ok THEN Raise("APIError")
    ELSE Return(reply.content, provider, model, prompt)

\* lines 128-138: Anthropic messages; message.content[0].text, IndexError
\* when the reply carries no text block.
anthropic_message(provider, model, prompt, reply) ==
    IF ~reply.ok THEN Raise("APIError")
    ELSE IF reply.content = None THEN Raise("IndexError")
    ELSE Return(reply.content, provider, model, prompt)

\* lines 48-166
summarize_with_llm(content, custom_instructions, api_key, provider, model, env, reply) ==
    LET p      == IF ~Truthy(provider) THEN getenv(env, "LLM_PROVIDER", "github") ELSE provider
        m      == IF ~Truthy(model) THEN env["LLM_MODEL"] ELSE model
        prompt == build_prompt(content, custom_instructions)
        key(var) == IF ~Truthy(api_key) THEN env[var] ELSE api_key
    IN  IF p = "github" THEN
            IF ~Truthy(key("GITHUB_TOKEN")) THEN Raise("GitHub token not provided")
            ELSE chat_completion(p, IF ~Truthy(m) THEN "gpt-4o" ELSE m, prompt, reply)
        ELSE IF p = "anthropic" THEN
            IF ~Truthy(key("ANTHROPIC_API_KEY")) THEN Raise("Anthropic API key not provided")
            ELSE anthropic_message(p, IF ~Truthy(m) THEN "claude-3-5-sonnet-20241022" ELSE m,
                                   prompt, reply)
        ELSE IF p = "openai" THEN
            IF ~Truthy(key("OPENAI_API_KEY")) THEN Raise("OpenAI API key not provided")
            ELSE chat_completion(p, IF ~Truthy(m) THEN "gpt-4o" ELSE m, prompt, reply)
        ELSE Raise("Unknown LLM provider: " \o p)

\* The ValueError messages of summarize_with_llm (configuration errors).
ConfigurationErrors ==
    { "GitHub token not provided", "Anthropic API key not provided",
      "OpenAI API key not provided" }
IsConfigurationError(msg) ==
    \/ msg \in ConfigurationErrors
    \/ (Len(msg) >= 21 /\ SubSeq(msg, 1, 21) = "Unknown LLM provider:")

(***************************************************************************)
(* safari_reader.py : extract_reading_list                                 *)
(*                                                                         *)
(* A parsed Bookmarks.plist is a tree of dicts.  Node 0 is plist_data, the *)
(* nodes 1..n are the dicts below it; parent[m] < m, and the 'Children'    *)
(* list of a node holds its child nodes in increasing order.               *)
(*   Title[m]       item.get('Title')          (None when absent)          *)
(*   folder[m]      'Children' in item                                     *)
(*   URLString[m], title[m], PreviewText[m], DateAdded[m]                  *)
(*                  None when the key is absent                            *)
(* NoFile stands for a path at which no file exists.                       *)
(***************************************************************************)
ReadingListTitle == "com.apple.ReadingList"
NoFile == [n |-> -1]

RECURSIVE ChildrenFrom(_, _, _)
ChildrenFrom(p, node, m) ==
    IF m > p.n THEN <<>>
    ELSE IF p.parent[m] = node THEN <<m>> \o ChildrenFrom(p, node, m + 1)
    ELSE ChildrenFrom(p, node, m + 1)

\* item['Children']
Children(p, node) == ChildrenFrom(p, node, 1)

\* dict.get(key, '') on a field whose absence is None
GetOrEmpty(v) == IF v = None THEN "" ELSE v

\* lines 32-40: the dict appended for one child of the reading-list folder
reading_list_entry(p, m) ==
    [ url          |-> GetOrEmpty(p.URLString[m]),
      title        |-> GetOrEmpty(p.title[m]),
      preview_text |-> GetOrEmpty(p.PreviewText[m]),
      added_date   |-> p.DateAdded[m] ]

collect(p, node) ==
    LET ch == Children(p, node)
    IN  [i \in 1..Len(ch) |-> reading_list_entry(p, ch[i])]

RECURSIVE traverse_descend_all(_, _)
\* what the traversal would be if it also searched below a matching folder
traverse_descend_all(p, children) ==
    IF children = <<>> THEN <<>>
    ELSE LET item == Head(children)
             here == IF p.Title[item] = ReadingListTitle /\ p.folder[item]
                     THEN collect(p, item) ELSE <<>>
             below == IF p.folder[item]
                      THEN traverse_descend_all(p, Children(p, item)) ELSE <<>>
         IN  here \o below \o traverse_descend_all(p, Tail(children))

RECURSIVE traverse_bookmarks(_, _)
\* lines 25-43: the entries appended by traverse_bookmarks(children), in order
traverse_bookmarks(p, children) ==
    IF children = <<>> THEN <<>>
    ELSE LET item == Head(children)
             here == IF p.Title[item] = ReadingListTitle
                     THEN (IF p.folder[item] THEN collect(p, item) ELSE <<>>)
                     ELSE IF p.folder[item]
                          THEN traverse_bookmarks(p, Children(p, item))
                          ELSE <<>>
         IN  here \o traverse_bookmarks(p, Tail(children))

\* lines 7-48
extract_reading_list(p) ==
    IF p = NoFile
    THEN [raised |-> TRUE, error |-> "Bookmarks file not found", entries |-> <<>>]
    ELSE [raised |-> FALSE, error |-> None,
          entries |-> IF p.folder[0] THEN traverse_bookmarks(p, Children(p, 0)) ELSE <<>>]

(***************************************************************************)
(* Bookmark files the handlers are run against.                            *)
(***************************************************************************)
\* A Bookmarks.plist as Safari writes it: a bookmarks-bar folder and the
\* reading-list folder below the root, the reading-list entries below that.
\* An entry without title carries no URIDictionary title; without date no
\* DateAdded.
SafariFile(entries) ==
    LET k == Len(entries)
    IN  [ n           |-> k + 2,
          parent      |-> [m \in 1..(k + 2) |-> IF m <= 2 THEN 0 ELSE 2],
          Title       |-> [m \in 0..(k + 2) |->
                              IF m = 1 THEN "BookmarksBar"
                              ELSE IF m = 2 THEN ReadingListTitle ELSE None],
          folder      |-> [m \in 0..(k + 2) |-> m <= 2],
          URLString   |-> [m \in 0..(k + 2) |-> IF m <= 2 THEN None ELSE entries[m - 2].url],
          title       |-> [m \in 0..(k + 2) |-> IF m <= 2 THEN None ELSE entries[m - 2].title],
          PreviewText |-> [m \in 0..(k + 2) |-> IF m <= 2 THEN None ELSE ""],
          DateAdded   |-> [m \in 0..(k + 2) |-> IF m <= 2 THEN None ELSE entries[m - 2].date] ]

(***************************************************************************)
(* models.py : ReadingListItem rows; main.py : the handlers                *)
(***************************************************************************)
VARIABLES
    environ,        \* os.environ of the server process
    items,          \* reading_list_items: id -> row, on the committed ids
    clock,          \* what datetime.utcnow() returns
    last,           \* the last handler run: its request, calls and response
    call, outcome,  \* SpecDispatch: one summarize_with_llm call, its outcome
    plist, reading_list  \* SpecExtract: one parsed file, the extracted list

vars == <<environ, items, clock, last, call, outcome, plist, reading_list>>

Max(S) == CHOOSE x \in S : \A y \in S : y <= x

RECURSIVE Ascending(_)
\* the ids of S in rowid order (the order of a table scan)
Ascending(S) ==
    IF S = {} THEN <<>>
    ELSE LET m == CHOOSE x \in S : \A y \in S : x <= y
         IN  <<m>> \o Ascending(S \ {m})

\* the rowid SQLite gives a new row: one above the largest rowid in use
NewId(table) == IF DOMAIN table = {} THEN 1 ELSE Max(DOMAIN table) + 1

Put(table, id, row) == [i \in DOMAIN table \cup {id} |-> IF i = id THEN row ELSE table[i]]
Remove(table, id) == [i \in DOMAIN table \ {id} |-> table[i]]

\* models.py lines 8-19, main.py lines 70-75
ReadingListItem(id, url, title, preview_text, added_date) ==
    [ id |-> id, url |-> url, title |-> title, preview_text |-> preview_text,
      content |-> None, summary |-> None, processed |-> FALSE,
      added_date |-> added_date, processed_date |-> None ]

(***************************************************************************)
(* POST /api/sync                                                          *)
(***************************************************************************)
RECURSIVE sync_loop_no_check(_, _, _, _)
\* the loop without the lookup by url
sync_loop_no_check(table, entries, now, new_count) ==
    IF entries = <<>> THEN [table |-> table, new_count |-> new_count]
    ELSE LET item == Head(entries)
             id   == NewId(table)
             row  == ReadingListItem(id, item.url,
                        IF Truthy(item.title) THEN item.title ELSE item.url,
                        item.preview_text,
                        IF item.added_date # None THEN item.added_date ELSE now)
         IN  sync_loop_no_check(Put(table, id, row), Tail(entries), now, new_count + 1)

RECURSIVE sync_loop(_, _, _, _)
\* lines 61-77: the session's view of the table after the loop, and new_count
sync_loop(table, entries, now, new_count) ==
    IF entries = <<>> THEN [table |-> table, new_count |-> new_count]
    ELSE LET item     == Head(entries)
             existing == {i \in DOMAIN table : table[i].url = item.url}
             id       == NewId(table)
             row      == ReadingListItem(id, item.url,
                            IF Truthy(item.title) THEN item.title ELSE item.url,
                            item.preview_text,
                            IF item.added_date # None THEN item.added_date ELSE now)
         IN  IF existing = {}
             THEN sync_loop(Put(table, id, row), Tail(entries), now, new_count + 1)
             ELSE sync_loop(table, Tail(entries), now, new_count)

\* lines 51-81
sync_reading_list(table, source, now) ==
    LET extracted == extract_reading_list(source)
    IN  IF extracted.raised
        THEN [status |-> 500, table |-> table, new_items |-> 0]
        ELSE LET done == sync_loop(table, extracted.entries, now, 0)
             IN  [status |-> 200, table |-> done.table, new_items |-> done.new_count]

(***************************************************************************)
(* POST /api/process                                                       *)
(***************************************************************************)
\* summarizer.py lines 9-45: what fetch_webpage_content(url) returns when the
\* web answers web[url]: the cleaned text (possibly '') or None on any failure.
fetch_webpage_content(web, url) == web[url]

NotFetched == "<not fetched>"

\* what the handler sees of a summarize_with_llm call: the exception's str or
\* the returned value
Brief(result) == [raised |-> result.raised, error |-> result.error, value |-> result.value]
NotDispatched == [raised |-> FALSE, error |-> None, value |-> None]

\* main.py line 128: the fetch is made when the row has no content, on
\* reprocess, and for a single item
needs_fetch(row, request) ==
    ~Truthy(row.content) \/ request.reprocess \/ TruthyInt(request.item_id)

\* the processed state of a row
State(row) == [ processed |-> row.processed, summary |-> row.summary,
                processed_date |-> row.processed_date ]

\* a pass that marks the row unprocessed when its fetch fails
process_item_reset(row, inv) ==
    LET fetch   == needs_fetch(row, inv.request)
        content == IF fetch THEN fetch_webpage_content(inv.web, row.url) ELSE NotFetched
        row1    == IF fetch /\ Truthy(content) THEN [row EXCEPT !.content = content] ELSE row
        result  == summarize_with_llm(row1.content, inv.custom_instructions,
                                      None, None, None, inv.env, inv.replies[row.id])
    IN  IF fetch /\ ~Truthy(content)
        THEN [ row |-> [row EXCEPT !.processed = FALSE], counted |-> 0,
               errors |-> << "Failed to fetch content for " \o row.url >>,
               fetched |-> content, summarized |-> FALSE, dispatch |-> NotDispatched ]
        ELSE IF result.raised
        THEN [ row |-> row1, counted |-> 0,
               errors |-> << "Error processing " \o row.url \o ": " \o result.error >>,
               fetched |-> content, summarized |-> TRUE, dispatch |-> Brief(result) ]
        ELSE [ row |-> [row1 EXCEPT !.summary = result.value,
                                    !.processed = TRUE,
                                    !.processed_date = inv.now],
               counted |-> 1, errors |-> <<>>,
               fetched |-> content, summarized |-> TRUE, dispatch |-> Brief(result) ]

\* a pass that stamps the row before summarize_with_llm has returned
process_item_stamps_first(row, inv) ==
    LET fetch   == needs_fetch(row, inv.request)
        content == IF fetch THEN fetch_webpage_content(inv.web, row.url) ELSE NotFetched
        row1    == IF fetch /\ Truthy(content) THEN [row EXCEPT !.content = content] ELSE row
        result  == summarize_with_llm(row1.content, inv.custom_instructions,
                                      None, None, None, inv.env, inv.replies[row.id])
    IN  IF fetch /\ ~Truthy(content)
        THEN [ row |-> row, counted |-> 0,
               errors |-> << "Failed to fetch content for " \o row.url >>,
               fetched |-> content, summarized |-> FALSE, dispatch |-> NotDispatched ]
        ELSE IF result.raised
        THEN [ row |-> [row1 EXCEPT !.processed_date = inv.now], counted |-> 0,
               errors |-> << "Error processing " \o row.url \o ": " \o result.error >>,
               fetched |-> content, summarized |-> TRUE, dispatch |-> Brief(result) ]
        ELSE [ row |-> [row1 EXCEPT !.summary = result.value,
                                    !.processed = TRUE,
                                    !.processed_date = inv.now],
               counted |-> 1, errors |-> <<>>,
               fetched |-> content, summarized |-> TRUE, dispatch |-> Brief(result) ]

\* One pass of the loop body, lines 126-144, for one row.  inv holds what the
\* invocation has in scope: request, custom_instructions, web, env, replies, now.
\*   row      the row as the session holds it afterwards
\*   counted  1 when processed_count was incremented
\*   errors   the strings appended to errors
\*   fetched  what the fetch returned (NotFetched when it was not made)
\*   summarized / dispatch   whether summarize_with_llm was called, its outcome
\* The log of the loop keeps these with the row's id, url and state before.
process_item(row, inv) ==
    LET fetch   == needs_fetch(row, inv.request)
        content == IF fetch THEN fetch_webpage_content(inv.web, row.url) ELSE NotFetched
        row1    == IF fetch /\ Truthy(content) THEN [row EXCEPT !.content = content] ELSE row
        result  == summarize_with_llm(row1.content, inv.custom_instructions,
                                      None, None, None, inv.env, inv.replies[row.id])
    IN  IF fetch /\ ~Truthy(content)
        THEN [ row |-> row, counted |-> 0,
               errors |-> << "Failed to fetch content for " \o row.url >>,
               fetched |-> content, summarized |-> FALSE, dispatch |-> NotDispatched ]
        ELSE IF result.raised
        THEN [ row |-> row1, counted |-> 0,
               errors |-> << "Error processing " \o row.url \o ": " \o result.error >>,
               fetched |-> content, summarized |-> TRUE, dispatch |-> Brief(result) ]
        ELSE [ row |-> [row1 EXCEPT !.summary = result.value,
                                    !.processed = TRUE,
                                    !.processed_date = inv.now],
               counted |-> 1, errors |-> <<>>,
               fetched |-> content, summarized |-> TRUE, dispatch |-> Brief(result) ]

RECURSIVE process_loop_abort(_, _, _)
\* a loop that a failed fetch ends (break for continue)
process_loop_abort(table, targets, inv) ==
    IF targets = <<>>
    THEN [table |-> table, processed_count |-> 0, errors |-> <<>>, log |-> <<>>]
    ELSE LET id   == Head(targets)
             one  == process_item(table[id], inv)
             rest == IF ~one.summarized
                     THEN [table |-> [table EXCEPT ![id] = one.row],
                           processed_count |-> 0, errors |-> <<>>, log |-> <<>>]
                     ELSE process_loop_abort([table EXCEPT ![id] = one.row],
                                             Tail(targets), inv)
         IN  [ table           |-> rest.table,
               processed_count |-> one.counted + rest.processed_count,
               errors          |-> one.errors \o rest.errors,
               log             |-> << [id |-> id, url |-> table[id].url,
                                       before |-> State(table[id]),
                                       fetched |-> one.fetched,
                                       summarized |-> one.summarized,
                                       dispatch |-> one.dispatch] >> \o rest.log ]

RECURSIVE process_loop(_, _, _)
\* lines 122-144 over items_to_process, in order
process_loop(table, targets, inv) ==
    IF targets = <<>>
    THEN [table |-> table, processed_count |-> 0, errors |-> <<>>, log |-> <<>>]
    ELSE LET id   == Head(targets)
             one  == process_item(table[id], inv)
             rest == process_loop([table EXCEPT ![id] = one.row], Tail(targets), inv)
         IN  [ table           |-> rest.table,
               processed_count |-> one.counted + rest.processed_count,
               errors          |-> one.errors \o rest.errors,
               log             |-> << [id |-> id, url |-> table[id].url,
                                       before |-> State(table[id]),
                                       fetched |-> one.fetched,
                                       summarized |-> one.summarized,
                                       dispatch |-> one.dispatch] >> \o rest.log ]

\* lines 101-120: items_to_process as a list of ids, or the 404
select_targets(table, request) ==
    IF TruthyInt(request.item_id)
    THEN IF request.item_id[1] \in DOMAIN table
         THEN [found |-> TRUE, ids |-> << request.item_id[1] >>]
         ELSE [found |-> FALSE, ids |-> <<>>]
    ELSE IF request.reprocess
    THEN [found |-> TRUE, ids |-> Ascending(DOMAIN table)]
    ELSE [found |-> TRUE,
          ids |-> Ascending({i \in DOMAIN table : table[i].processed = FALSE})]

\* lines 84-152
process_items(table, request, setting, web, env, replies, now) ==
    LET custom_instructions ==
            IF ~Truthy(request.custom_instructions) /\ setting # None
            THEN setting ELSE request.custom_instructions
        sel  == select_targets(table, request)
        done == process_loop(table, sel.ids,
                             [ request |-> request,
                               custom_instructions |-> custom_instructions,
                               web |-> web, env |-> env, replies |-> replies,
                               now |-> now ])
    IN  IF ~sel.found
        THEN [ status |-> 404, detail |-> "Item not found", table |-> table,
               processed_count |-> 0, errors |-> <<>>, log |-> <<>> ]
        ELSE [ status |-> 200, detail |-> None, table |-> done.table,
               processed_count |-> done.processed_count,
               errors |-> done.errors, log |-> done.log ]

\* lines 193-207
delete_item(table, item_id) ==
    IF item_id \notin DOMAIN table
    THEN [status |-> 404, table |-> table]
    ELSE [status |-> 200, table |-> Remove(table, item_id)]

(***************************************************************************)
(* Bounds and input sets                                                   *)
(***************************************************************************)
MaxId == 2          \* rows are inserted only while their ids stay within 1..MaxId
MaxEntries == 2     \* reading-list entries in one bookmarks file of Spec
MaxNodes == 4       \* nodes below the root in a bookmarks tree of SpecExtract
Margin == 2         \* content lengths within Margin of max_chars in SpecDispatch

Url1 == "https://a.example/post"
Url2 == "https://b.example/post"
Urls == {Url1, Url2}

\* The reading-list entries of Spec: one bare (no title, no date), one complete.
Entries ==
    { [url |-> Url1, title |-> None, date |-> None],
      [url |-> Url2, title |-> "B", date |-> "2024-04-30"] }

\* the days on which datetime.utcnow() is read: the server starts on the
\* first, and midnight passes once
StartDay == "2024-05-01"
NextDay == "2024-05-02"

RECURSIVE SeqsUpTo(_, _)
SeqsUpTo(S, k) ==
    IF k = 0 THEN {<<>>}
    ELSE LET shorter == SeqsUpTo(S, k - 1)
         IN  shorter \cup {Append(q, e) : q \in shorter, e \in S}

\* a parsed file whose top level has no 'Children'
BarePlist ==
    [ n |-> 0, parent |-> <<>>, Title |-> [m \in {0} |-> None],
      folder |-> [m \in {0} |-> FALSE], URLString |-> [m \in {0} |-> None],
      title |-> [m \in {0} |-> None], PreviewText |-> [m \in {0} |-> None],
      DateAdded |-> [m \in {0} |-> None] ]

SyncSources ==
    {NoFile, BarePlist} \cup {SafariFile(q) : q \in SeqsUpTo(Entries, MaxEntries)}

\* os.environ of the server process
Env(provider, github, anthropic, openai) ==
    [ LLM_PROVIDER |-> provider, LLM_MODEL |-> None, GITHUB_TOKEN |-> github,
      ANTHROPIC_API_KEY |-> anthropic, OPENAI_API_KEY |-> openai ]

\* the environments the server of Spec is started in
ServerEnvs ==
    { Env(None, "ghp_token", None, None),        \* default provider, credential set
      Env(None, None, None, None),               \* default provider, no credential
      Env("mistral", "ghp_token", None, None) }  \* a provider that is not supported

FetchResults == {None, "", "page text"}

Requests ==
    [ item_id : {NoneInt} \cup {<<i>> : i \in 0..MaxId},
      reprocess : BOOLEAN,
      custom_instructions : {None} ]

\* whether summarize_with_llm gets as far as calling the provider under env
Configured(env) ==
    ~summarize_with_llm("x", None, None, None, None, env,
                        [ok |-> TRUE, content |-> "summary"]).raised

ConfiguredEnvs == {env \in ServerEnvs : Configured(env)}

SeqToSet(q) == {q[k] : k \in 1..Len(q)}

\* the urls the handler fetches for these targets
FetchedUrls(request, targets) ==
    {items[i].url : i \in {j \in SeqToSet(targets) : needs_fetch(items[j], request)}}

\* the targets for which the handler calls summarize_with_llm, given the fetches
SummarizedIds(request, targets, web) ==
    {i \in SeqToSet(targets) :
        needs_fetch(items[i], request) => Truthy(web[items[i].url])}

(***************************************************************************)
(* Spec: the handlers                                                      *)
(***************************************************************************)
NotCalled == [raised |-> FALSE, error |-> "<not called>"]
NotRun == [raised |-> FALSE, error |-> "<not run>"]
NoCall == [content |-> ""]

\* no request is being answered
Ready == [op |-> "ready", status |-> 0]

Idle == /\ call = NoCall /\ outcome = NotCalled
        /\ plist = NoFile /\ reading_list = NotRun

Init ==
    /\ environ \in ServerEnvs
    /\ items = <<>>
    /\ clock = StartDay
    /\ last = Ready
    /\ Idle

\* POST /api/sync against the bookmarks file found at the configured path.
\* A client sends a request once the response to the one before has arrived;
\* the sync may also be repeated straight away.
Sync ==
    /\ last.op \in {"ready", "sync"}
    /\ \E source \in SyncSources :
       \E r \in {sync_reading_list(items, source, clock)} :
           /\ \A i \in DOMAIN r.table : i <= MaxId
           /\ items' = r.table
           /\ last' = [ op |-> "sync", status |-> r.status, source |-> source,
                        new_items |-> r.new_items,
                        again |-> (last.op = "sync" /\ last.source = source) ]
           /\ UNCHANGED <<environ, clock, call, outcome, plist, reading_list>>

\* POST /api/process; the settings table holds no custom_instructions row.
\* The web and the provider answer only the calls the handler makes.
Process ==
    /\ last = Ready
    /\ \E request \in Requests :
       \E targets \in {select_targets(items, request).ids} :
       \E web \in [FetchedUrls(request, targets) -> FetchResults] :
       \E replies \in [(IF environ \in ConfiguredEnvs
                        THEN SummarizedIds(request, targets, web) ELSE {})
                       -> ApiReplies] :
       \E r \in {process_items(items, request, None, web, environ, replies, clock)} :
           /\ items' = r.table
           /\ last' = [ op |-> "process", status |-> r.status, request |-> request,
                        processed_count |-> r.processed_count,
                        errors |-> r.errors, log |-> r.log ]
           /\ UNCHANGED <<environ, clock, call, outcome, plist, reading_list>>

\* DELETE /api/items/{item_id}
Delete ==
    /\ last = Ready
    /\ \E item_id \in 0..MaxId :
       \E r \in {delete_item(items, item_id)} :
           /\ items' = r.table
           /\ last' = [op |-> "delete", status |-> r.status, item_id |-> item_id]
           /\ UNCHANGED <<environ, clock, call, outcome, plist, reading_list>>

\* the response reaches the client
Respond ==
    /\ last # Ready
    /\ last' = Ready
    /\ UNCHANGED <<environ, items, clock, call, outcome, plist, reading_list>>

\* midnight passes
Tick ==
    /\ clock = StartDay
    /\ clock' = NextDay
    /\ UNCHANGED <<environ, items, last, call, outcome, plist, reading_list>>

Next == Sync \/ Process \/ Delete \/ Respond \/ Tick

Spec == Init /\ [][Next]_vars

(***************************************************************************)
(* SpecExtract: extract_reading_list over every bookmarks tree of at most  *)
(* MaxNodes nodes below plist_data                                         *)
(***************************************************************************)
\* A tree of n nodes: a node with children has the 'Children' key, a node
\* without may have it (an empty folder); a node that is no folder is a
\* bookmark with its own URLString and title.
Tree(n, parent, Title, emptyFolder) ==
    LET folder == [m \in 0..n |-> emptyFolder[m] \/ \E k \in 1..n : parent[k] = m]
    IN  [ n           |-> n,
          parent      |-> parent,
          Title       |-> Title,
          folder      |-> folder,
          URLString   |-> [m \in 0..n |-> IF folder[m] THEN None
                                           ELSE "https://example.com/" \o ToString(m)],
          title       |-> [m \in 0..n |-> IF folder[m] THEN None
                                           ELSE "Page " \o ToString(m)],
          PreviewText |-> [m \in 0..n |-> None],
          DateAdded   |-> [m \in 0..n |-> None] ]

Parents(n) == {f \in [1..n -> 0..(n - 1)] : \A m \in 1..n : f[m] < m}

\* the nodes that may be empty folders: those without children
EmptyFolders(n, parent) ==
    {f \in [0..n -> BOOLEAN] : \A m \in 0..n : f[m] => \A k \in 1..n : parent[k] # m}

HandlersIdle ==
    /\ environ = Env(None, None, None, None)
    /\ items = <<>>
    /\ clock = StartDay
    /\ last = Ready

InitExtract ==
    /\ HandlersIdle
    /\ call = NoCall /\ outcome = NotCalled
    /\ \/ plist = NoFile
       \/ \E n \in 0..MaxNodes :
          \E parent \in Parents(n) :
          \E Title \in [0..n -> {ReadingListTitle, "Favorites"}] :
          \E emptyFolder \in EmptyFolders(n, parent) :
              plist = Tree(n, parent, Title, emptyFolder)
    /\ reading_list = NotRun

Extract ==
    /\ reading_list = NotRun
    /\ reading_list' = extract_reading_list(plist)
    /\ UNCHANGED <<environ, items, clock, last, call, outcome, plist>>

NextExtract == Extract

SpecExtract == InitExtract /\ [][NextExtract]_vars

(***************************************************************************)
(* SpecDispatch: summarize_with_llm on contents around max_chars           *)
(***************************************************************************)
\* a content of n characters whose last character differs from the others
Content(fill, n) == IF n = 0 THEN "" ELSE Repeat(fill, n - 1) \o "$"

ContentLengths == {0, 1} \cup ((max_chars - Margin)..(max_chars + Margin))

Contents == {Content(fill, n) : fill \in {"a", "b"}, n \in ContentLengths}

DispatchEnvs ==
    { Env(None, "ghp_token", None, None),
      Env(None, None, "sk-ant", "sk-openai"),
      Env("anthropic", None, "sk-ant", None),
      Env("openai", "ghp_token", None, None),
      Env("mistral", "ghp_token", "sk-ant", "sk-openai") }

Calls ==
    [ content : Contents,
      custom_instructions : {None, "", "Summarize in one sentence."},
      api_key : {None},
      provider : {None, "openai"},
      model : {None},
      env : DispatchEnvs,
      reply : {r \in ApiReplies : r.ok} ]

InitDispatch ==
    /\ HandlersIdle
    /\ plist = NoFile /\ reading_list = NotRun
    /\ call \in Calls
    /\ outcome = NotCalled

Summarize ==
    /\ outcome = NotCalled
    /\ outcome' = summarize_with_llm(call.content, call.custom_instructions, call.api_key,
                                     call.provider, call.model, call.env, call.reply)
    /\ UNCHANGED <<environ, items, clock, last, call, plist, reading_list>>

NextDispatch == Summarize

SpecDispatch == InitDispatch /\ [][NextDispatch]_vars

(***************************************************************************)
(* Properties of the handlers (Spec)                                       *)
(***************************************************************************)
\* the per-item record of the last Process run
Log == IF last.op = "process" THEN last.log ELSE <<>>

ProcessReported == last.op = "process" /\ last.status = 200

\* the text err contains the text url
Names(err, url) ==
    \E a \in 1..(Len(err) - Len(url) + 1) : SubSeq(err, a, a + Len(url) - 1) = url

\* C1: every persisted item with processed == true has a non-null summary and
\* a processedDate.
ProcessedHasSummary ==
    \A i \in DOMAIN items :
        items[i].processed =>
            (items[i].summary # None /\ items[i].processed_date # None)

\* C2: a Sync that directly follows a Sync of the same, unchanged source
\* reports new_items == 0 and leaves the set of persisted items as it was.
SyncIsIdempotent ==
    [][ (last'.op = "sync" /\ last'.again /\ last'.status = 200)
            => (last'.new_items = 0 /\ items' = items) ]_vars

SecondSyncOfFilledSource ==
    /\ last.op = "sync" /\ last.again /\ last.status = 200
    /\ last.source # BarePlist
    /\ Len(extract_reading_list(last.source).entries) = MaxEntries
    /\ Cardinality(DOMAIN items) >= 1

\* the targets whose fetch was made and returned null
FetchReturnedNull(e) == e.fetched = None
\* the targets that went through: content at hand and the dispatcher returned
WentThrough(e) ==
    /\ e.fetched = NotFetched \/ Truthy(e.fetched)
    /\ e.summarized /\ ~e.dispatch.raised

\* C3: when some targets of a Process run fail by a null fetch and all others
\* succeed, every target is attempted, processed_count is the number of the
\* others, errors has exactly one entry per failing item naming its URL, the
\* others end processed, and a failing item that was unprocessed stays so.
BatchIsolation ==
    (ProcessReported /\ \A k \in DOMAIN Log : FetchReturnedNull(Log[k]) \/ WentThrough(Log[k]))
    => LET failing == {k \in DOMAIN Log : FetchReturnedNull(Log[k])}
           others  == DOMAIN Log \ failing
           logged  == {Log[k].id : k \in DOMAIN Log}
           request == last.request
       IN  /\ IF TruthyInt(request.item_id) THEN logged = {request.item_id[1]}
              ELSE IF request.reprocess THEN logged = DOMAIN items
              ELSE \A i \in DOMAIN items \ logged : items[i].processed
           /\ \A k \in DOMAIN Log : Log[k].fetched # NotFetched \/ Log[k].summarized
           /\ last.processed_count = Cardinality(others)
           /\ Len(last.errors) = Cardinality(failing)
           /\ \A k \in failing :
                Cardinality({j \in DOMAIN last.errors : Names(last.errors[j], Log[k].url)}) = 1
           /\ \A k \in others : items[Log[k].id].processed
           /\ \A k \in failing : ~Log[k].before.processed => ~items[Log[k].id].processed

OneFailsOneSucceeds ==
    /\ ProcessReported
    /\ \A k \in DOMAIN Log : FetchReturnedNull(Log[k]) \/ WentThrough(Log[k])
    /\ \E k \in DOMAIN Log : \E j \in DOMAIN Log :
          /\ k < j
          /\ FetchReturnedNull(Log[k]) /\ ~Log[k].before.processed
          /\ WentThrough(Log[j])

\* C4: a configuration error of the dispatcher (missing credential, unknown
\* provider) ends the Process invocation; it is never an entry of errors in a
\* normal report.
ConfigurationErrorIsFatal ==
    ProcessReported =>
        \A k \in DOMAIN Log :
            ~(Log[k].dispatch.raised /\ IsConfigurationError(Log[k].dispatch.error))

\* C5 as stated: an item whose fetch returns null has an error recorded, is
\* not summarized, and has processed == false once the run is committed.
FetchNullEndsUnprocessed ==
    ProcessReported =>
        \A k \in DOMAIN Log :
            FetchReturnedNull(Log[k]) =>
                /\ \E j \in DOMAIN last.errors : Names(last.errors[j], Log[k].url)
                /\ ~Log[k].summarized
                /\ ~items[Log[k].id].processed

\* C5: an item whose fetch returns null has an error naming its URL recorded,
\* is not summarized, and keeps the processed flag, summary and processedDate
\* it had: an unprocessed item stays unprocessed, a processed one (single-item
\* and reprocess mode) stays processed.
FetchNullKeepsState ==
    ProcessReported =>
        \A k \in DOMAIN Log :
            FetchReturnedNull(Log[k]) =>
                /\ \E j \in DOMAIN last.errors :
                      last.errors[j] = "Failed to fetch content for " \o Log[k].url
                /\ ~Log[k].summarized
                /\ Log[k].dispatch = NotDispatched
                /\ State(items[Log[k].id]) = Log[k].before

FetchNullOfProcessedItem ==
    /\ ProcessReported
    /\ \E k \in DOMAIN Log :
          /\ FetchReturnedNull(Log[k])
          /\ Log[k].before.processed
          /\ items[Log[k].id].processed

\* C6: Process targets exactly the item with the given id when item_id is
\* specified, else all items when reprocess is set, else the unprocessed
\* items; it changes no other item and creates or deletes none.
TargetsAsRequested ==
    [][ (last'.op = "process" /\ last'.status = 200 /\ clock' = clock)
        => LET request == last'.request
               logged  == {last'.log[k].id : k \in DOMAIN last'.log}
               targets == IF request.item_id # NoneInt
                          THEN {request.item_id[1]} \cap DOMAIN items
                          ELSE IF request.reprocess THEN DOMAIN items
                          ELSE {i \in DOMAIN items : ~items[i].processed}
           IN  /\ logged = targets
               /\ DOMAIN items' = DOMAIN items
               /\ \A i \in DOMAIN items \ targets : items'[i] = items[i] ]_vars

\* C7: Process with an item_id (any integer, 0 included) that no item carries
\* answers not-found, makes no fetch or dispatch call, and changes no item.
MissingItemIsNotFound ==
    [][ (/\ last'.op = "process" /\ clock' = clock
         /\ last'.request.item_id # NoneInt
         /\ last'.request.item_id[1] \notin DOMAIN items)
        => (last'.status = 404 /\ last'.log = <<>> /\ items' = items) ]_vars

\* C10: when the dispatcher raises for an item, an error naming the item's
\* URL is recorded and the item's summary, processed flag and processedDate
\* are the ones it had before the run.
DispatchErrorKeepsState ==
    ProcessReported =>
        \A k \in DOMAIN Log :
            (Log[k].summarized /\ Log[k].dispatch.raised) =>
                /\ \E j \in DOMAIN last.errors :
                      /\ Names(last.errors[j], Log[k].url)
                      /\ Names(last.errors[j], Log[k].dispatch.error)
                /\ State(items[Log[k].id]) = Log[k].before

DispatchErrorOnProcessedItem ==
    /\ ProcessReported
    /\ \E k \in DOMAIN Log :
          /\ Log[k].summarized /\ Log[k].dispatch.raised
          /\ Log[k].before.processed
          /\ Log[k].before.processed_date # clock

(***************************************************************************)
(* Properties of the extractor (SpecExtract)                               *)
(***************************************************************************)
Extracted == reading_list # NotRun /\ ~reading_list.raised

RECURSIVE PathTo(_, _)
\* the nodes from below plist_data down to m
PathTo(p, m) == IF m = 0 THEN <<>> ELSE PathTo(p, p.parent[m]) \o <<m>>

Ancestors(p, m) == {PathTo(p, m)[i] : i \in 1..(Len(PathTo(p, m)) - 1)}

\* m comes before k in the file
Before(p, m, k) ==
    LET a == PathTo(p, m)
        b == PathTo(p, k)
    IN  \E i \in 1..Len(a) :
            /\ i <= Len(b)
            /\ \A j \in 1..(i - 1) : a[j] = b[j]
            /\ a[i] < b[i]

RECURSIVE InFileOrder(_, _)
InFileOrder(p, S) ==
    IF S = {} THEN <<>>
    ELSE LET m == CHOOSE x \in S : \A y \in S \ {x} : Before(p, x, y)
         IN  <<m>> \o InFileOrder(p, S \ {m})

\* the folders titled com.apple.ReadingList below plist_data
ReadingListFolders(p) ==
    {f \in 1..p.n : p.folder[f] /\ p.Title[f] = ReadingListTitle}

\* those of them that lie below no node titled com.apple.ReadingList
OutermostReadingListFolders(p) ==
    {f \in ReadingListFolders(p) :
        \A a \in Ancestors(p, f) : p.Title[a] # ReadingListTitle}

ChildrenOfAll(p, folders) == {m \in 1..p.n : p.parent[m] \in folders}

EntriesOf(p, nodes) ==
    LET order == InFileOrder(p, nodes)
    IN  [i \in 1..Len(order) |-> reading_list_entry(p, order[i])]

\* C8 as stated: the children of every folder titled com.apple.ReadingList
\* anywhere in the tree are collected, folders nested below a matching
\* folder included; one such folder with N children gives N entries in
\* source order, none gives an empty list.
CollectsEveryReadingListFolder ==
    Extracted =>
        LET folders == ReadingListFolders(plist)
            nodes   == ChildrenOfAll(plist, folders)
        IN  /\ Len(reading_list.entries) = Cardinality(nodes)
            /\ \A m \in nodes : \E i \in DOMAIN reading_list.entries :
                  reading_list.entries[i] = reading_list_entry(plist, m)
            /\ Cardinality(folders) = 1 => reading_list.entries = EntriesOf(plist, nodes)
            /\ folders = {} => reading_list.entries = <<>>

\* C8: the children of every folder titled com.apple.ReadingList that lies
\* below plist_data and below no node of that title are collected, in file
\* order; a matching folder is not searched, so a folder nested in it is an
\* entry of its own and its children are not collected.  One such folder
\* with N children gives N entries in source order, none gives an empty list.
CollectsOutermostReadingListFolders ==
    Extracted =>
        LET folders == OutermostReadingListFolders(plist)
            nodes   == ChildrenOfAll(plist, folders)
        IN  /\ reading_list.entries = EntriesOf(plist, nodes)
            /\ \A f \in folders :
                  Cardinality(folders) = 1 =>
                      /\ Len(reading_list.entries) = Len(Children(plist, f))
                      /\ \A i \in DOMAIN reading_list.entries :
                            reading_list.entries[i] =
                                reading_list_entry(plist, Children(plist, f)[i])
            /\ folders = {} => reading_list.entries = <<>>

NestedReadingListFolder ==
    /\ Extracted
    /\ \E f \in ReadingListFolders(plist) : \E g \in ReadingListFolders(plist) :
          /\ f \in Ancestors(plist, g)
          /\ f \in OutermostReadingListFolders(plist)
          /\ Children(plist, g) # <<>>
          /\ Len(reading_list.entries) = Len(Children(plist, f))

(***************************************************************************)
(* Properties of the dispatcher (SpecDispatch)                             *)
(***************************************************************************)
Dispatched == outcome # NotCalled /\ ~outcome.raised

\* C9: the prompt is the instructions, a blank line, 'Content:', a blank
\* line and the content; a content of more than max_chars characters is cut
\* to its first max_chars characters followed by the truncation marker, a
\* content of at most max_chars characters is passed unchanged.
PromptKeepsBudget ==
    Dispatched =>
        LET instructions ==
                IF call.custom_instructions # None /\ call.custom_instructions # ""
                THEN call.custom_instructions ELSE default_instructions
            head == instructions \o "\n\nContent:\n\n"
            sent == SubSeq(outcome.prompt, Len(head) + 1, Len(outcome.prompt))
        IN  /\ Len(outcome.prompt) >= Len(head)
            /\ SubSeq(outcome.prompt, 1, Len(head)) = head
            /\ Len(call.content) <= max_chars => sent = call.content
            /\ Len(call.content) > max_chars =>
                  /\ Len(sent) = max_chars + Len(truncation_marker)
                  /\ SubSeq(sent, 1, max_chars) = SubSeq(call.content, 1, max_chars)
                  /\ SubSeq(sent, max_chars + 1, Len(sent)) = truncation_marker

ContentOverBudgetSent ==
    /\ Dispatched
    /\ Len(call.content) = max_chars + 1
    /\ Len(outcome.prompt) > max_chars + Len(truncation_marker)

====
